---- MODULE Spec2Model ----
(***************************************************************************)
(* Food tracking backend: the FastAPI endpoints of backend/main.py, the    *)
(* two import clients (import_example.py, pandas_import_example.py) and    *)
(* the storage layer they call.  The storage layer (crud.py, schemas.py,   *)
(* database.py) is imported by main.py but is not among the source files;  *)
(* its operators below follow the contracts of spec.md sections 3 to 5.    *)
(***************************************************************************)
EXTENDS Integers, Sequences, FiniteSets, TLC

\* ------------------------------------------------------------------ bounds
MaxFoods == 2      \* identifiers the store generates in one behaviour
MaxLogs == 2       \* log entries the store generates in one behaviour

\* ------------------------------------------------------------- value sets
None == "None"     \* Python None in a string-valued field
NaN == "NaN"       \* a pandas missing-value marker in a string-valued field
Absent == "Absent" \* the key is not in the dictionary
NoneI == <<>>      \* Python None in an integer-valued field
Some(n) == <<n>>   \* an integer-valued field that carries n

Barcodes == {"X", "Y"}
ErrTexts == {"e1", "e2"}   \* the text of an internal (storage) error
FoodIds == 1..MaxFoods
InitialQuantity == 3      \* the quantity the sampled FoodCreate bodies carry

\* QuantityUpdateRequest bodies (quantity_change, action).
QuantityUpdates ==
    {[quantity_change |-> -5, action |-> "consumed"],
     [quantity_change |-> 2, action |-> "restocked"]}

\* NutritionLogCreate bodies, for every food id.
NutritionLogs == [food_id : FoodIds, quantity : {1}, action : {"donated"}]

VARIABLES
    foods,     \* the FoodItem table: a set of rows
    logs,      \* the NutritionLogEntry table: a set of rows
    nextId,    \* the next identifier the store generates for a FoodItem
    nextLog,   \* the next identifier the store generates for a log entry
    logReq,    \* a create_nutrition_log request between its two storage calls
    adjusted,  \* history: the quantity updates answered 200, in order
    resp       \* the outcome of the last step, until its caller has read it

vars == <<foods, logs, nextId, nextLog, logReq, adjusted, resp>>

\* ---------------------------------------------------------------- helpers
RECURSIVE SumSeq(_)
SumSeq(s) == IF s = <<>> THEN 0 ELSE Head(s) + SumSeq(Tail(s))

\* Python truthiness of a string-valued field (None, NaN-turned-None, "").
Truthy(v) == v \notin {None, Absent, ""}

\* What an operation gave its caller: op names the operation (or the step of
\* it) that acted last, req its inputs, status and detail the HTTP answer,
\* body the payload.
Response(op, req, code, detail, body) ==
    [op |-> op, req |-> req, status |-> code, detail |-> detail, body |-> body]

\* No answer is waiting, no request is between two calls.
Idle == Response("idle", <<>>, 0, <<>>, <<>>)

\* A note for the reader of a trace, not sent: the number of rows the storage
\* call reported to the handler.
Matched(response, n) == [response EXCEPT !.req = [arg |-> @, matched |-> n]]

\* HTTPException(status_code, detail) as the handler at lines 296-303 renders it.
http_exception_handler(op, req, code, detail) ==
    Response(op, req, code, detail, <<>>)

\* Any other exception exc: the handler at lines 306-314 logs exc and answers
\* with a fixed detail.
general_exception_handler(op, req, exc) ==
    Response(op, req, 500, <<"Internal server error">>, <<>>)


\* ------------------------------------------------------------ import rows
\* An expiry_date value: None, NaN, or a string, held as the digit groups the
\* "-" characters separate ("2024-12-31" is <<2,0,2,4>>, <<1,2>>, <<3,1>>).
NoDate == [kind |-> "none", f |-> <<>>]
NaNDate == [kind |-> "nan", f |-> <<>>]
DateStr(a, b, c) == [kind |-> "str", f |-> <<a, b, c>>]
\* The string "", and a string with two groups only ("2024-12").
EmptyDate == [kind |-> "str", f |-> <<>>]
DateStr2(a, b) == [kind |-> "str", f |-> <<a, b>>]
\* A value that is no string: the pd.Timestamp of a datetime column.
DateObj == [kind |-> "obj", f |-> <<>>]

\* item['expiry_date'] as a condition: None and "" are false.
DateTruthy(v) == v.kind # "none" /\ v # EmptyDate

Number(ds) == IF Len(ds) = 1 THEN ds[1] ELSE 10 * ds[1] + ds[2]

Year(ds) == 1000 * ds[1] + 100 * ds[2] + 10 * ds[3] + ds[4]

DaysInMonth(y, m) ==
    IF m \in {4, 6, 9, 11} THEN 30
    ELSE IF m # 2 THEN 31
    ELSE IF (y % 4 = 0 /\ y % 100 # 0) \/ y % 400 = 0 THEN 29 ELSE 28

\* datetime.strptime(s, '%Y-%m-%d') succeeds: a year of four digits, a month
\* of one or two digits in 1..12, a day of one or two digits that the month has.
ParsesYMD(v) ==
    /\ v.kind = "str"
    /\ Len(v.f) = 3
    /\ Len(v.f[1]) = 4 /\ Year(v.f[1]) >= 1
    /\ Len(v.f[2]) \in 1..2 /\ Number(v.f[2]) \in 1..12
    /\ Len(v.f[3]) \in 1..2
    /\ Number(v.f[3]) \in 1..DaysInMonth(Year(v.f[1]), Number(v.f[2]))

\* Rows of a DataFrame as to_dict('records') gives them: every column in
\* every row, NaN where the cell is missing.
RowGood ==
    [barcode |-> "X", name |-> "A", quantity |-> NoneI, allergens |-> "str:nuts",
     expiry_date |-> DateStr(<<2, 0, 2, 4>>, <<1, 2>>, <<3, 1>>)]
RowBadDate ==
    [barcode |-> "X", name |-> "A", quantity |-> Some(3), allergens |-> "list:nuts",
     expiry_date |-> DateStr(<<3, 1>>, <<1, 2>>, <<2, 0, 2, 4>>)]
RowNoBarcode ==
    [barcode |-> NaN, name |-> "A", quantity |-> Some(3), allergens |-> NaN,
     expiry_date |-> NaNDate]
RowNoName ==
    [barcode |-> "Y", name |-> "", quantity |-> NoneI, allergens |-> "str:",
     expiry_date |-> NaNDate]

\* The DataFrames the clients are run on.
Batches ==
    {<<RowGood>>, <<RowNoBarcode, RowGood>>, <<RowGood, RowNoName>>,
     <<RowGood, RowBadDate>>, <<RowGood, RowNoBarcode, RowBadDate>>}

\* for key, value in item.items(): if pd.isna(value): item[key] = None
\* (import_example.py 40-42, pandas_import_example.py 62-65)
IsNaToNone(item) ==
    [item EXCEPT
       !.barcode = IF @ = NaN THEN None ELSE @,
       !.name = IF @ = NaN THEN None ELSE @,
       !.allergens = IF @ = NaN THEN None ELSE @,
       !.expiry_date = IF @.kind = "nan" THEN NoDate ELSE @]

\* 'barcode' not in item or not item['barcode'], then the same for name
\* (import_example.py 45-48): the ValueError message, or None.
RequiredFieldError(item) ==
    IF ~Truthy(item.barcode) THEN "barcode is required for all items"
    ELSE IF ~Truthy(item.name) THEN "name is required for all items"
    ELSE None

\* The expiry_date sent on as it came, whatever it is.
CleanExpiryDate_unvalidated(v) == v

\* import_example.py 60-69: a value that is false as a condition stays as it
\* is; a string stays when strptime accepts it and becomes None when it
\* raises ValueError; any other value becomes None.
CleanExpiryDate(v) ==
    IF ~DateTruthy(v) THEN v
    ELSE IF v.kind = "str"
      THEN (IF ParsesYMD(v) THEN v ELSE NoDate)
      ELSE NoDate

\* import_example.py 50-69, for an item that passed the required-field check.
CleanItem(item) ==
    [item EXCEPT
       !.quantity = IF @ = NoneI THEN Some(1) ELSE @,
       !.allergens = IF @ = "str:nuts" THEN "list:nuts"
                     ELSE IF @ = "str:" THEN "list:" ELSE @,
       !.expiry_date = CleanExpiryDate(@)]

\* prepare_food_data(df): the loop stops at the first item that fails the
\* required-field check, and the ValueError leaves the function.
prepare_food_data(df) ==
    LET data == [i \in DOMAIN df |-> IsNaToNone(df[i])]
        bad == {i \in DOMAIN df : RequiredFieldError(data[i]) # None}
        first == CHOOSE i \in bad : \A j \in bad : i <= j
    IN IF bad # {}
         THEN [raised |-> TRUE, error |-> RequiredFieldError(data[first]),
               data |-> <<>>]
         ELSE [raised |-> FALSE, error |-> None,
               data |-> [i \in DOMAIN df |-> CleanItem(data[i])]]

\* prepare_dataframe_for_import(df): NaN to None, nothing else.
prepare_dataframe_for_import(df) == [i \in DOMAIN df |-> IsNaToNone(df[i])]

\* ---------------------------------------------------- storage layer (crud)
get_food_by_id(fs, id) == {f \in fs : f.id = id}

FoodExists(fs, id) == get_food_by_id(fs, id) # {}

\* create(fields): always inserts a new row, under the identifier the store
\* generates for it.
create_food(fs, id, data) ==
    fs \cup {[id |-> id, barcode |-> data.barcode, name |-> data.name,
              quantity |-> data.quantity, allergens |-> data.allergens,
              expiry_date |-> data.expiry_date]}

\* update(id, partialFields): only the fields of update_data are applied.
update_food(fs, id, update_data) ==
    [foods |-> {IF f.id = id
                  THEN [k \in DOMAIN f |-> IF k \in DOMAIN update_data
                                             THEN update_data[k] ELSE f[k]]
                  ELSE f : f \in fs},
     found |-> FoodExists(fs, id)]

\* append without its existence check.
log_nutrition_event_unchecked(fs, lg, lid, food_id, quantity, action) ==
    [logs |-> lg \cup {[id |-> lid, food_id |-> food_id,
                        quantity |-> quantity, action |-> action]},
     found |-> TRUE]

\* append(foodId, quantity, action): NotFoundError unless the food exists.
log_nutrition_event(fs, lg, lid, food_id, quantity, action) ==
    IF FoodExists(fs, food_id)
      THEN [logs |-> lg \cup {[id |-> lid, food_id |-> food_id,
                               quantity |-> quantity, action |-> action]},
            found |-> TRUE]
      ELSE [logs |-> lg, found |-> FALSE]

\* adjustQuantity writing the change over the quantity instead of adding it.
update_quantity_overwrites(fs, lg, lid, food_id, quantity_change, action) ==
    IF FoodExists(fs, food_id)
      THEN [foods |-> {IF f.id = food_id
                         THEN [f EXCEPT !.quantity = quantity_change]
                         ELSE f : f \in fs},
            logs |-> log_nutrition_event(fs, lg, lid, food_id,
                                         quantity_change, action).logs,
            found |-> TRUE]
      ELSE [foods |-> fs, logs |-> lg, found |-> FALSE]

\* adjustQuantity(id, delta, action): quantity += delta as an atomic increment
\* and the log entry, in one storage transaction.
update_quantity(fs, lg, lid, food_id, quantity_change, action) ==
    IF FoodExists(fs, food_id)
      THEN [foods |-> {IF f.id = food_id
                         THEN [f EXCEPT !.quantity = @ + quantity_change]
                         ELSE f : f \in fs},
            logs |-> log_nutrition_event(fs, lg, lid, food_id,
                                         quantity_change, action).logs,
            found |-> TRUE]
      ELSE [foods |-> fs, logs |-> lg, found |-> FALSE]

delete_food(fs, id) ==
    [foods |-> {f \in fs : f.id # id}, found |-> FoodExists(fs, id)]

\* deleteByBarcode(barcode): deletes every matching row, returns the count.
delete_food_by_barcode(fs, barcode) ==
    [foods |-> {f \in fs : f.barcode # barcode},
     count |-> Cardinality({f \in fs : f.barcode = barcode})]

\* One row of import(rows), steps 1 to 6: rejected for a missing required
\* field, or normalized and inserted in a transaction of its own; failed says
\* that this transaction fails.  i is the row's index, from 0.
ImportRow(st, row, i, failed) ==
    LET item == IsNaToNone(row)
        data == [barcode |-> item.barcode, name |-> item.name,
                 quantity |-> IF item.quantity = NoneI THEN 1 ELSE item.quantity[1],
                 allergens |-> IF item.allergens = "str:nuts" THEN "list:nuts"
                               ELSE IF item.allergens \in {"str:", None}
                                 THEN "list:" ELSE item.allergens,
                 expiry_date |-> IF ParsesYMD(item.expiry_date)
                                   THEN item.expiry_date ELSE NoDate]
    IN IF ~Truthy(item.barcode) \/ ~Truthy(item.name)
         THEN [st EXCEPT !.failed = @ + 1,
                         !.errors = Append(@, <<i, "missing required field">>)]
         ELSE IF failed
           THEN [st EXCEPT !.failed = @ + 1,
                           !.errors = Append(@, <<i, "storage error">>)]
           ELSE [st EXCEPT !.foods = create_food(@, st.nextId, data),
                           !.nextId = @ + 1,
                           !.succeeded = @ + 1]

RECURSIVE ImportRows(_, _, _, _)
ImportRows(st, rows, i, failAt) ==
    IF i > Len(rows) THEN st
    ELSE ImportRows(ImportRow(st, rows[i], i - 1, failAt = i), rows, i + 1, failAt)

\* import(rows) -> ImportReport, row by row; failAt is the row whose insert
\* the storage refuses (0: none does).
bulk_import_from_dataframe(fs, nid, rows, failAt) ==
    ImportRows([foods |-> fs, nextId |-> nid, total_rows |-> Len(rows),
                succeeded |-> 0, failed |-> 0, errors |-> <<>>],
               rows, 1, failAt)

\* -------------------------------------------------------------- requests
\* FoodCreate bodies.
FoodCreates ==
    [barcode : Barcodes, name : {"A"}, quantity : {InitialQuantity},
     allergens : {"list:"}, expiry_date : {NoDate}]

\* FoodUpdate bodies: every field is optional and None when not sent.
FoodUpdates ==
    {[barcode |-> None, name |-> None, quantity |-> NoneI],
     [barcode |-> "Y", name |-> None, quantity |-> NoneI]}

\* {k: v for k, v in food_update.dict().items() if v is not None}  (line 150)
FilterNone(food_update) ==
    LET keys == {k \in {"barcode", "name"} : food_update[k] # None}
                \cup {k \in {"quantity"} : food_update[k] # NoneI}
    IN [k \in keys |-> IF k = "quantity" THEN food_update[k][1] ELSE food_update[k]]

Init ==
    /\ foods = {}
    /\ logs = {}
    /\ nextId = 1
    /\ nextLog = 1
    /\ logReq = Idle
    /\ adjusted = <<>>
    /\ resp = Idle

\* ------------------------------------------------------------- endpoints
\* POST /foods/  (lines 76-92): no duplicate check; exc, when the storage
\* call raises it, becomes a 500 with a fixed detail.
\* The handler with a duplicate check: a barcode already in the store gives
\* back the row that has it.
create_food_result_dedup(fs, id, food, exc) ==
    LET same == {f \in fs : f.barcode = food.barcode}
    IN IF exc # None
         THEN [foods |-> fs,
               resp |-> http_exception_handler("create_food", food, 500,
                            <<"Internal server error">>)]
         ELSE IF same # {}
           THEN [foods |-> fs,
                 resp |-> Response("create_food", food, 201, <<>>,
                                   <<(CHOOSE f \in same : TRUE).id>>)]
           ELSE [foods |-> create_food(fs, id, food),
                 resp |-> Response("create_food", food, 201, <<>>, <<id>>)]

create_food_result(fs, id, food, exc) ==
    IF exc # None
      THEN [foods |-> fs,
            resp |-> http_exception_handler("create_food", food, 500,
                         <<"Internal server error">>)]
      ELSE [foods |-> create_food(fs, id, food),
            resp |-> Response("create_food", food, 201, <<>>, <<id>>)]

create_food_endpoint ==
    \E food \in FoodCreates, exc \in ErrTexts \cup {None} :
        /\ resp = Idle
        /\ nextId <= MaxFoods
        /\ LET r == create_food_result(foods, nextId, food, exc)
           IN /\ foods' = r.foods
              /\ resp' = r.resp
              /\ nextId' = IF r.foods = foods THEN nextId ELSE nextId + 1
        /\ UNCHANGED <<logs, nextLog, logReq, adjusted>>

\* PUT /foods/{food_id}  (lines 142-164): 400 on an empty update_data, then
\* the storage call, then 404 when it found nothing.
\* The handler with its two checks in the other order: the lookup first.
update_food_result_lookup_first(fs, food_id, food_update, exc) ==
    LET update_data == FilterNone(food_update)
        req == [food_id |-> food_id, food_update |-> food_update]
        r == update_food(fs, food_id, update_data)
    IN IF exc # None
         THEN [foods |-> fs,
               resp |-> general_exception_handler("update_food", req, exc)]
         ELSE IF ~r.found
           THEN [foods |-> fs,
                 resp |-> http_exception_handler("update_food", req, 404,
                              <<"Food not found">>)]
           ELSE IF DOMAIN update_data = {}
             THEN [foods |-> fs,
                   resp |-> http_exception_handler("update_food", req, 400,
                                <<"No update data provided">>)]
             ELSE [foods |-> r.foods,
                   resp |-> Response("update_food", req, 200, <<>>, <<food_id>>)]

update_food_result(fs, food_id, food_update, exc) ==
    LET update_data == FilterNone(food_update)
        req == [food_id |-> food_id, food_update |-> food_update]
        r == update_food(fs, food_id, update_data)
    IN IF DOMAIN update_data = {}
         THEN [foods |-> fs,
               resp |-> http_exception_handler("update_food", req, 400,
                            <<"No update data provided">>)]
         ELSE IF exc # None
           THEN [foods |-> fs,
                 resp |-> general_exception_handler("update_food", req, exc)]
           ELSE IF ~r.found
             THEN [foods |-> fs,
                   resp |-> http_exception_handler("update_food", req, 404,
                                <<"Food not found">>)]
             ELSE [foods |-> r.foods,
                   resp |-> Response("update_food", req, 200, <<>>, <<food_id>>)]

update_food_endpoint ==
    \E food_id \in FoodIds, food_update \in FoodUpdates,
       exc \in ErrTexts \cup {None} :
        /\ resp = Idle
        /\ LET r == update_food_result(foods, food_id, food_update, exc)
           IN foods' = r.foods /\ resp' = r.resp
        /\ UNCHANGED <<logs, nextId, nextLog, logReq, adjusted>>

\* PUT /foods/{food_id}/quantity  (lines 167-182): one storage call, 404 when
\* it found nothing.
\* The handler logging the change itself after the storage call has.
update_quantity_result_logs_again(fs, lg, lid, food_id, quantity_update, exc) ==
    LET req == [food_id |-> food_id, quantity_update |-> quantity_update]
        r == update_quantity(fs, lg, lid, food_id,
                             quantity_update.quantity_change,
                             quantity_update.action)
    IN IF exc # None
         THEN [foods |-> fs, logs |-> lg,
               resp |-> general_exception_handler("update_quantity", req, exc)]
         ELSE IF ~r.found
           THEN [foods |-> fs, logs |-> lg,
                 resp |-> http_exception_handler("update_quantity", req, 404,
                              <<"Food not found">>)]
           ELSE [foods |-> r.foods,
                 logs |-> log_nutrition_event(r.foods, r.logs, lid + 1, food_id,
                              quantity_update.quantity_change,
                              quantity_update.action).logs,
                 resp |-> Response("update_quantity", req, 200, <<>>,
                                   <<food_id>>)]

\* The handler without its "if not updated_food" check.
update_quantity_result_no_404(fs, lg, lid, food_id, quantity_update, exc) ==
    LET req == [food_id |-> food_id, quantity_update |-> quantity_update]
        r == update_quantity(fs, lg, lid, food_id,
                             quantity_update.quantity_change,
                             quantity_update.action)
    IN IF exc # None
         THEN [foods |-> fs, logs |-> lg,
               resp |-> general_exception_handler("update_quantity", req, exc)]
         ELSE [foods |-> r.foods, logs |-> r.logs,
               resp |-> Response("update_quantity", req, 200, <<>>, <<food_id>>)]

update_quantity_result(fs, lg, lid, food_id, quantity_update, exc) ==
    LET req == [food_id |-> food_id, quantity_update |-> quantity_update]
        r == update_quantity(fs, lg, lid, food_id,
                             quantity_update.quantity_change,
                             quantity_update.action)
    IN IF exc # None
         THEN [foods |-> fs, logs |-> lg,
               resp |-> general_exception_handler("update_quantity", req, exc)]
         ELSE IF ~r.found
           THEN [foods |-> fs, logs |-> lg,
                 resp |-> http_exception_handler("update_quantity", req, 404,
                              <<"Food not found">>)]
           ELSE [foods |-> r.foods, logs |-> r.logs,
                 resp |-> Response("update_quantity", req, 200, <<>>,
                                   <<food_id>>)]

update_quantity_endpoint ==
    \E food_id \in FoodIds, quantity_update \in QuantityUpdates,
       exc \in ErrTexts \cup {None} :
        /\ resp = Idle
        /\ FoodExists(foods, food_id) => nextLog <= MaxLogs
        /\ LET r == update_quantity_result(foods, logs, nextLog, food_id,
                                           quantity_update, exc)
           IN /\ foods' = r.foods
              /\ logs' = r.logs
              /\ resp' = r.resp
              /\ nextLog' = IF r.logs = logs THEN nextLog ELSE nextLog + 1
              /\ adjusted' = IF r.resp.status = 200
                               THEN Append(adjusted, r.resp.req) ELSE adjusted
        /\ UNCHANGED <<nextId, logReq>>

\* DELETE /foods/{food_id}  (lines 185-193)
delete_food_result(fs, food_id, exc) ==
    LET r == delete_food(fs, food_id)
    IN IF exc # None
         THEN [foods |-> fs,
               resp |-> general_exception_handler("delete_food", food_id, exc)]
         ELSE IF ~r.found
           THEN [foods |-> fs,
                 resp |-> http_exception_handler("delete_food", food_id, 404,
                              <<"Food not found">>)]
           ELSE [foods |-> r.foods,
                 resp |-> Response("delete_food", food_id, 204, <<>>, <<>>)]

delete_food_endpoint ==
    \E food_id \in FoodIds, exc \in ErrTexts \cup {None} :
        /\ resp = Idle
        /\ LET r == delete_food_result(foods, food_id, exc)
           IN foods' = r.foods /\ resp' = r.resp
        /\ UNCHANGED <<logs, nextId, nextLog, logReq, adjusted>>

\* DELETE /foods/barcode/{barcode}  (lines 196-205): what the storage call
\* returns only decides between 404 and 200; the body is a message that
\* names the barcode.
\* The handler without its "if not success" check.
delete_food_by_barcode_result_no_404(fs, barcode, exc) ==
    LET success == delete_food_by_barcode(fs, barcode)
    IN IF exc # None
         THEN [foods |-> fs,
               resp |-> general_exception_handler("delete_food_by_barcode",
                                                  barcode, exc)]
         ELSE [foods |-> success.foods,
               resp |-> Response("delete_food_by_barcode", barcode, 200, <<>>,
                            [message |-> <<"All food items with barcode ",
                                           barcode, " have been deleted">>])]

delete_food_by_barcode_result(fs, barcode, exc) ==
    LET success == delete_food_by_barcode(fs, barcode)
    IN IF exc # None
         THEN [foods |-> fs,
               resp |-> general_exception_handler("delete_food_by_barcode",
                                                  barcode, exc)]
         ELSE IF success.count = 0
           THEN [foods |-> fs,
                 resp |-> http_exception_handler("delete_food_by_barcode",
                              barcode, 404,
                              <<"No food items found with this barcode">>)]
           ELSE [foods |-> success.foods,
                 resp |-> Response("delete_food_by_barcode", barcode, 200, <<>>,
                              [message |-> <<"All food items with barcode ",
                                             barcode, " have been deleted">>])]

\* The barcode a delete_food_by_barcode answer is about.
BarcodeOf(response) == response.req.arg

delete_food_by_barcode_endpoint ==
    \E barcode \in Barcodes, exc \in ErrTexts \cup {None} :
        /\ resp = Idle
        /\ LET r == delete_food_by_barcode_result(foods, barcode, exc)
           IN /\ foods' = r.foods
              /\ resp' = Matched(r.resp, Cardinality(foods \ r.foods))
        /\ UNCHANGED <<logs, nextId, nextLog, logReq, adjusted>>

\* POST /nutrition-logs/  (lines 209-226) makes two storage calls.  The
\* first, get_food_by_id, decides the 404 (lines 216-221).
create_nutrition_log_verify(fs, nutrition_log) ==
    IF ~FoodExists(fs, nutrition_log.food_id)
      THEN [logReq |-> Idle,
            resp |-> http_exception_handler("create_nutrition_log",
                         nutrition_log, 404, <<"Food not found">>)]
      ELSE [logReq |-> [op |-> "log", nutrition_log |-> nutrition_log],
            resp |-> Response("create_nutrition_log:verified", nutrition_log,
                              0, <<>>, <<>>)]

create_nutrition_log_endpoint_verify ==
    \E nutrition_log \in NutritionLogs :
        /\ resp = Idle
        /\ logReq = Idle
        /\ LET r == create_nutrition_log_verify(foods, nutrition_log)
           IN logReq' = r.logReq /\ resp' = r.resp
        /\ UNCHANGED <<foods, logs, nextId, nextLog, adjusted>>

\* The second, log_nutrition_event (lines 223-226).  What it raises is no
\* HTTPException and reaches the general handler.
create_nutrition_log_insert(fs, lg, lid, nutrition_log, exc) ==
    LET r == log_nutrition_event(fs, lg, lid, nutrition_log.food_id,
                                 nutrition_log.quantity, nutrition_log.action)
    IN IF exc # None
         THEN [logs |-> lg,
               resp |-> general_exception_handler("create_nutrition_log",
                                                  nutrition_log, exc)]
         ELSE IF ~r.found
           THEN [logs |-> lg,
                 resp |-> general_exception_handler("create_nutrition_log",
                              nutrition_log, "NotFoundError")]
           ELSE [logs |-> r.logs,
                 resp |-> Response("create_nutrition_log", nutrition_log, 201,
                                   <<>>, <<lid>>)]

create_nutrition_log_endpoint_insert ==
    \E exc \in ErrTexts \cup {None} :
        /\ resp = Idle
        /\ logReq # Idle
        /\ nextLog <= MaxLogs
        /\ LET r == create_nutrition_log_insert(foods, logs, nextLog,
                                                logReq.nutrition_log, exc)
           IN /\ logs' = r.logs
              /\ resp' = r.resp
              /\ nextLog' = IF r.logs = logs THEN nextLog ELSE nextLog + 1
        /\ logReq' = Idle
        /\ UNCHANGED <<foods, nextId, adjusted>>

\* POST /foods/bulk-import  (lines 242-258): the importer's report is the
\* body; an exception exc of the importer (which opens its own storage
\* session, line 251) becomes a 500 whose detail carries str(exc).
\* The import as one transaction that a failed row rolls back.
bulk_import_result_rolls_back(req, fs, nid, data, failAt, exc) ==
    LET results == bulk_import_from_dataframe(fs, nid, data, failAt)
    IN IF exc # None
         THEN [foods |-> fs, nextId |-> nid,
               resp |-> http_exception_handler("bulk_import", req, 500,
                            <<"Bulk import failed: ", exc>>)]
         ELSE [foods |-> IF results.failed > 0 THEN fs ELSE results.foods,
               nextId |-> results.nextId,
               resp |-> Response("bulk_import", req, 200, <<>>,
                            [total_rows |-> results.total_rows,
                             successful_imports |-> results.succeeded,
                             failed_imports |-> results.failed,
                             errors |-> results.errors])]

bulk_import_result(req, fs, nid, data, failAt, exc) ==
    LET results == bulk_import_from_dataframe(fs, nid, data, failAt)
    IN IF exc # None
         THEN [foods |-> fs, nextId |-> nid,
               resp |-> http_exception_handler("bulk_import", req, 500,
                            <<"Bulk import failed: ", exc>>)]
         ELSE [foods |-> results.foods, nextId |-> results.nextId,
               resp |-> Response("bulk_import", req, 200, <<>>,
                            [total_rows |-> results.total_rows,
                             successful_imports |-> results.succeeded,
                             failed_imports |-> results.failed,
                             errors |-> results.errors])]

\* requests.post(url, json={"data": data}) of import_food_data (lines 73-93)
\* and import_to_database (lines 69-78), with the handler's whole run.
bulk_import_endpoint(req, data) ==
    \E failAt \in 0..Len(data), exc \in ErrTexts \cup {None} :
        /\ Len(data) <= MaxFoods - nextId + 1
        /\ LET r == bulk_import_result(req, foods, nextId, data, failAt, exc)
           IN foods' = r.foods /\ nextId' = r.nextId /\ resp' = r.resp
        /\ UNCHANGED <<logs, nextLog, logReq, adjusted>>

\* import_example.py, lines 122-135: prepare, then import; a ValueError of
\* prepare_food_data ends the run with nothing sent.
import_example_run(df) ==
    LET req == [client |-> "import_example", df |-> df]
        prepared == prepare_food_data(df)
    IN IF prepared.raised
         THEN /\ resp' = Response("prepare_food_data", req, 0,
                                  <<"Error: ", prepared.error>>, <<>>)
              /\ UNCHANGED <<foods, logs, nextId, nextLog, logReq, adjusted>>
         ELSE bulk_import_endpoint(req, prepared.data)

import_example_main ==
    \E df \in Batches :
        /\ resp = Idle
        /\ import_example_run(df)

\* pandas_import_example.py, lines 109-121.
pandas_import_example_run(df) ==
    bulk_import_endpoint([client |-> "pandas_import_example", df |-> df],
                         prepare_dataframe_for_import(df))

pandas_import_example_main ==
    \E df \in Batches :
        /\ resp = Idle
        /\ pandas_import_example_run(df)

\* The caller reads the answer.
deliver ==
    /\ resp # Idle
    /\ resp' = Idle
    /\ UNCHANGED <<foods, logs, nextId, nextLog, logReq, adjusted>>

\* Requests served one after the other, each handler run whole.
Next ==
    \/ create_food_endpoint
    \/ update_food_endpoint
    \/ update_quantity_endpoint
    \/ delete_food_endpoint
    \/ delete_food_by_barcode_endpoint
    \/ import_example_main
    \/ pandas_import_example_main
    \/ deliver

Spec == Init /\ [][Next]_vars

\* Requests served by workers that share the store: a handler that makes two
\* storage calls is two steps, and other requests' calls come between them.
NextConc ==
    \/ create_food_endpoint
    \/ update_quantity_endpoint
    \/ delete_food_endpoint
    \/ delete_food_by_barcode_endpoint
    \/ create_nutrition_log_endpoint_verify
    \/ create_nutrition_log_endpoint_insert
    \/ deliver

SpecConc == Init /\ [][NextConc]_vars

\* ------------------------------------------------- imports of dated rows
\* expiry_date cells: "2024-12-31", "2024-2-29", "2023-02-29", "2024-13-01",
\* "31-12-2024", "2024-12", "", a Timestamp, None and NaN.
ExpiryDates ==
    {DateStr(<<2, 0, 2, 4>>, <<1, 2>>, <<3, 1>>),
     DateStr(<<2, 0, 2, 4>>, <<2>>, <<2, 9>>),
     DateStr(<<2, 0, 2, 3>>, <<0, 2>>, <<2, 9>>),
     DateStr(<<2, 0, 2, 4>>, <<1, 3>>, <<0, 1>>),
     DateStr(<<3, 1>>, <<1, 2>>, <<2, 0, 2, 4>>),
     DateStr2(<<2, 0, 2, 4>>, <<1, 2>>),
     EmptyDate, DateObj, NoDate, NaNDate}

\* Rows that differ in the expiry_date cell only, of two kinds: one whose
\* quantity and allergens the other steps rewrite, one they leave alone.
DateRows ==
    {[r EXCEPT !.expiry_date = v] : r \in {RowGood, RowBadDate}, v \in ExpiryDates}

DateBatches ==
    {<<r>> : r \in DateRows}
        \cup {<<RowBadDate, RowGood>>, <<RowNoBarcode, RowBadDate>>}

\* requests.post(url, json=...) of pandas_import_example.py sends the cells
\* as they are: the DataFrames it is run on hold strings, None and NaN.
JsonBatches ==
    {df \in DateBatches : \A i \in DOMAIN df : df[i].expiry_date # DateObj}

import_example_dates ==
    \E df \in DateBatches :
        /\ resp = Idle
        /\ import_example_run(df)

pandas_import_example_dates ==
    \E df \in JsonBatches :
        /\ resp = Idle
        /\ pandas_import_example_run(df)

\* The two import clients run on the dated rows, one after the other.
NextDates ==
    \/ import_example_dates
    \/ pandas_import_example_dates
    \/ deliver

SpecDates == Init /\ [][NextDates]_vars

\* ================================================================ claims
\* The rows of a DataFrame whose barcode or name is absent or empty.
BadRows(df) ==
    {i \in DOMAIN df : \/ df[i].barcode \in {NaN, None, ""}
                       \/ df[i].name \in {NaN, None, ""}}

\* C1: whenever a batch has been through the import, the outcome is a report
\* (status 200), every row with an absent or empty barcode or name has a
\* per-row error under its index (from 0), every row of the batch was
\* processed (succeeded + failed = rows of the batch) and no bad row was
\* inserted.  (A 500 of the storage itself is no case of this claim.)
C1_BadRowsRejectedBatchNotAborted ==
    (resp.op \in {"prepare_food_data", "bulk_import"} /\ resp.status # 500) =>
        LET df == resp.req.df
        IN /\ resp.op = "bulk_import"
           /\ resp.status = 200
           /\ \A i \in BadRows(df) :
                 \E k \in DOMAIN resp.body.errors : resp.body.errors[k][1] = i - 1
           /\ resp.body.successful_imports + resp.body.failed_imports = Len(df)
           /\ resp.body.successful_imports <= Len(df) - Cardinality(BadRows(df))

\* The same statement for the batches that reach the endpoint unvalidated
\* (pandas_import_example.py): there the importer's per-row handling decides.
C1_ViaPandasClient ==
    (resp.op = "bulk_import" /\ resp.req.client = "pandas_import_example")
        => C1_BadRowsRejectedBatchNotAborted

\* A FoodUpdate body none of whose fields carries a value.
PayloadEmpty(food_update) ==
    /\ food_update.barcode = None
    /\ food_update.name = None
    /\ food_update.quantity = NoneI

\* C5: an update whose payload is empty is answered 400, whether or not the
\* id exists, and leaves both tables as they were.
C5_EmptyUpdateIs400 ==
    [][(resp'.op = "update_food" /\ PayloadEmpty(resp'.req.food_update))
         => (resp'.status = 400 /\ foods' = foods /\ logs' = logs)]_vars

\* An empty update of an id that is not in the (non-empty) store got its 400.
C5_Witness ==
    /\ resp.op = "update_food"
    /\ PayloadEmpty(resp.req.food_update)
    /\ resp.status = 400
    /\ foods # {}
    /\ ~FoodExists(foods, resp.req.food_id)

\* C8: the detail of a 500 holds nothing of the internal error's text, so it
\* is the same whatever that text is.
C8_InternalErrorDetailIsGeneric ==
    resp.status = 500 => \A i \in DOMAIN resp.detail : resp.detail[i] \notin ErrTexts

C3_UnknownIdIs404 ==
    [][(resp'.op = "update_quantity" /\ ~FoodExists(foods, resp'.req.food_id))
         => /\ resp'.status \in {404, 500}
            /\ logs' = logs
            /\ foods' = foods]_vars

\* An unknown id got its 404 while the store held a food and a log entry.
C3_Witness ==
    /\ resp.op = "update_quantity"
    /\ resp.status = 404
    /\ ~FoodExists(foods, resp.req.food_id)
    /\ foods # {}
    /\ logs # {}

Ids(fs) == {f.id : f \in fs}

UniqueIds(fs) == \A f, g \in fs : f.id = g.id => f = g

\* C6: the identifiers in the store are pairwise distinct; a row of the store
\* after a step is an item that was there before, under the same identifier,
\* or carries an identifier never given out; an update of fields or of the
\* quantity keeps the set of identifiers; and a create is answered 201 (500
\* when the storage call fails) whatever barcodes the store holds, the 201
\* adding exactly one row, under a fresh identifier, to rows left as they were.
C6_FreshUniqueStableIds ==
    /\ UniqueIds(foods)
    /\ [][/\ UniqueIds(foods')
          /\ \A g \in foods' : g.id \in Ids(foods) \/ g.id >= nextId
          /\ resp'.op \in {"update_food", "update_quantity"}
                => Ids(foods') = Ids(foods)
          /\ resp'.op = "create_food" =>
                /\ resp'.status \in {201, 500}
                /\ logs' = logs
                /\ resp'.status = 500 => foods' = foods
                /\ resp'.status = 201 =>
                      \E g \in foods' \ foods :
                          /\ foods' = foods \cup {g}
                          /\ g.id \notin Ids(foods)
                          /\ g.barcode = resp'.req.barcode
                          /\ resp'.body = <<g.id>>]_vars

\* A create whose barcode another row already had: both rows are there.
C6_Witness ==
    /\ resp.op = "create_food"
    /\ resp.status = 201
    /\ \E f, g \in foods :
          /\ g.id = resp.body[1]
          /\ f.id # g.id
          /\ f.barcode = g.barcode

AdjustedFor(id) ==
    LET Mine(a) == a.food_id = id
    IN SelectSeq(adjusted, Mine)

Changes(seq) == [i \in DOMAIN seq |-> seq[i].quantity_update.quantity_change]

SentDateAsClaimed(df, i) ==
    LET v == df[i].expiry_date
        item == prepare_food_data(df).data[i]
        undated == prepare_food_data(<<[df[i] EXCEPT !.expiry_date = NoDate]>>).data[1]
    IN /\ item.expiry_date = IF ParsesYMD(v) THEN v
                             ELSE IF v = EmptyDate THEN EmptyDate ELSE NoDate
       /\ [item EXCEPT !.expiry_date = NoDate] = undated

\* The allergens a stored row is expected to carry for a cell of the DataFrame.
AllergenList(cell) ==
    IF cell = "str:nuts" THEN "list:nuts"
    ELSE IF cell \in {"str:", NaN, None} THEN "list:" ELSE cell

\* C11: in every bulk import that is answered with a report, the client's
\* normalization keeps a row's expiry_date when it parses as YYYY-MM-DD and
\* hands on no date otherwise, changing no other field over it; the report
\* has no per-row error other than a missing required field or a refusal by
\* the storage, so a row is never failed for its expiry_date; and every row
\* without an error is counted in succeeded and stored under a fresh id with
\* its own fields and with its expiry_date when that parses, absent when not.
C11_ExpiryDateKeptIffParses ==
    [][(resp'.op = "bulk_import" /\ resp'.status = 200) =>
         LET df == resp'.req.df
             report == resp'.body
             failedRows == {report.errors[k][1] + 1 : k \in DOMAIN report.errors}
             imported == DOMAIN df \ failedRows
             Rank(i) == Cardinality({j \in imported : j < i})
         IN /\ resp'.req.client = "import_example" =>
                 \A i \in DOMAIN df : SentDateAsClaimed(df, i)
            /\ \A k \in DOMAIN report.errors :
                  \/ report.errors[k][2] = "storage error"
                  \/ (report.errors[k][1] + 1) \in BadRows(df)
            /\ report.successful_imports = Cardinality(imported)
            /\ \A i \in imported :
                  \E f \in foods' \ foods :
                      /\ f.id = nextId + Rank(i)
                      /\ f.barcode = df[i].barcode
                      /\ f.name = df[i].name
                      /\ f.quantity = (IF df[i].quantity = NoneI
                                         THEN 1 ELSE df[i].quantity[1])
                      /\ f.allergens = AllergenList(df[i].allergens)
                      /\ f.expiry_date = IF ParsesYMD(df[i].expiry_date)
                                           THEN df[i].expiry_date ELSE NoDate]_vars

\* import_example.py was run on the one row whose expiry_date is "31-12-2024":
\* the report counts it in succeeded with no error, and the row is in the
\* store without a date.
C11_Witness ==
    /\ resp.op = "bulk_import"
    /\ resp.status = 200
    /\ resp.req.client = "import_example"
    /\ resp.req.df = <<RowBadDate>>
    /\ resp.body.successful_imports = 1
    /\ resp.body.failed_imports = 0
    /\ resp.body.errors = <<>>
    /\ \E f \in foods :
          /\ f.id = nextId - 1
          /\ f.barcode = "X"
          /\ f.quantity = 3
          /\ f.expiry_date = NoDate
====
